---- MODULE Spec2Model ----
(***************************************************************************)
(* Batch generation engine of evoselfcode: the concurrency-capped          *)
(* completion client (clients/async_openai.py) and the five generators     *)
(* that drive it (datagen/preprocess/{problemgen,skeletongen,codegen,      *)
(* ratinggen}.py and services/datagen_service.py).                         *)
(*                                                                         *)
(* A text is a sequence of characters.  The characters that the code       *)
(* distinguishes are " " (whitespace), "d" (a leading "def "), "#" (a      *)
(* comment line), "!" (text that ast.parse / the score patterns reject),   *)
(* "s" (skeleton text) and "x", "y" (anything else).                       *)
(***************************************************************************)
EXTENDS Naturals, Integers, Sequences, FiniteSets, TLC

\* ------------------------------------------------------------- bounds ---
MaxSamples == 3
MaxConcurrent == 2
MaxWriteSize == 2
TransportRetries == 2

\* ---------------------------------------------------------- constants ---
\* 'max_attempts': 3 of a retry task
MaxAttempts == 3

\* ------------------------------------------------------------ helpers ---
Range(s) == {s[i] : i \in 1..Len(s)}

Min(a, b) == IF a <= b THEN a ELSE b

\* math.ceil(a / b) for b > 0
Ceil(a, b) == (a + b - 1) \div b

RECURSIVE LStrip(_)
LStrip(s) == IF s # <<>> /\ Head(s) = " " THEN LStrip(Tail(s)) ELSE s

RECURSIVE RStrip(_)
RStrip(s) == IF s # <<>> /\ s[Len(s)] = " " THEN RStrip(SubSeq(s, 1, Len(s) - 1)) ELSE s

\* strip() as it would be if it left whitespace in place
Strip_Nothing(s) == s

\* str.strip()
Strip(s) == RStrip(LStrip(s))

CharCode(c) ==
    CASE c = " " -> 1
      [] c = "x" -> 2
      [] c = "y" -> 3
      [] c = "d" -> 4
      [] c = "#" -> 5
      [] c = "!" -> 6
      [] c = "s" -> 7
      [] c = "n" -> 8
      [] OTHER -> 9

\* hashlib.sha256(text.encode('utf-8')).hexdigest()[:16]: a deterministic
\* digest of the characters of the text, here the value of the text read as
\* a numeral, which separates all texts of the model.
RECURSIVE compute_hash(_)
compute_hash(text) ==
    IF text = <<>> THEN 0
    ELSE compute_hash(SubSeq(text, 1, Len(text) - 1)) * 10 + CharCode(text[Len(text)])

\* CodeGenerator._check_body_format: a body that starts with "def " is a
\* full function, which is the wrong format.
check_body_format(body) == ~(LStrip(body) # <<>> /\ Head(LStrip(body)) = "d")

\* CodeGenerator._check_body_has_code: some line is neither empty nor a comment.
check_body_has_code(body) == Strip(body) # <<>> /\ Head(Strip(body)) # "#"

\* CodeGenerator._validate_syntax / SkeletonGenerator._validate_skeleton
validate_syntax(code) == "!" \notin Range(code)

\* CodeGenerator._combine_skeleton_and_body
combine_skeleton_and_body(skeleton, body) ==
    RStrip(skeleton) \o <<"n", " ">> \o LStrip(body)

\* RatingGenerator._parse_rating followed by _validate_scores
validate_scores(rating_text) == "!" \notin Range(rating_text)

\* -------------------------------------------------------------- inputs ---
Kinds == {"problem", "skeleton", "code", "rating", "names"}
SamplingKinds == {"problem", "names"}
RetryKinds == {"code", "rating"}

\* the texts the remote service may answer with
Responses(k) ==
    CASE k \in {"problem", "names", "skeleton"} -> {<<" ">>, <<"x">>, <<"x", " ">>, <<"y">>}
      [] k = "code" -> {<<" ">>, <<"x">>, <<"d", "x">>, <<"#">>, <<"x", "!">>}
      [] OTHER -> {<<" ">>, <<"x">>, <<"!">>}

\* the i-th line of the input file of a transform stage
ItemText(i) == [j \in 1..i |-> "s"]
ItemUid(i) == compute_hash(ItemText(i))

\* the lines of the input file of a transform stage
InputFile == [i \in 1..MaxSamples |-> i]

\* --------------------------------------------------------------- state ---
VARIABLES
    kind,               \* which generator runs over the output directory
    num_samples,        \* generate(num_samples=...)
    batch_write_size,   \* generate(batch_write_size=...)
    capacity,           \* the client's max_concurrent
    max_retries,        \* the client's max_retries
    artLog,             \* the artifact log (*_results.jsonl, ...), one record per line
    hashLog,            \* the identifier log hash_table.txt, one identifier per line
    sem,                \* client.semaphore._value
    reqs,               \* the _complete_async tasks that exist; of each: its gather
                        \* call and slot, its source item, where it stands, the
                        \* attempt of _retry_call, the delay it sleeps, its result
    pc,                 \* where generate() stands
    run,                \* number of the run over the output directory
    items,              \* the source items of the run (transform stages)
    existing_hashes, pending_write, pending_hashes, all_results,
    total_generated,    \* total_generated / total_processed / completed
    total_duplicates,
    batch_idx, num_batches, max_concurrent,
    retry_tasks,
    wi,                 \* lines written so far by the write in progress
    write_data, write_hashes,   \* the cells closed over by write_batch
    bg,                 \* the write_batch tasks created and not finished
    issued,             \* requests issued so far in the run, per source item
    answers,            \* what the responses processed so far were, per source item
    writeFailed,        \* a durable write of the run has failed
    prev                \* how the previous run over the directory ended, and the
                        \* identifiers it left in the identifier log

inputVars == <<kind, num_samples, batch_write_size, capacity, max_retries>>
diskVars == <<artLog, hashLog>>
clientVars == <<sem, reqs>>
bufVars == <<existing_hashes, pending_write, pending_hashes, all_results>>
loopVars == <<items, total_generated, total_duplicates, batch_idx, num_batches,
              max_concurrent, retry_tasks>>
bgVars == <<write_data, write_hashes, bg>>
vars == <<inputVars, diskVars, clientVars, pc, run, bufVars, loopVars, wi, bgVars,
          issued, answers, writeFailed, prev>>

\* ------------------------------------------------ the completion client ---
\* the gather call generate() is suspended on
Round == IF pc = "awaitRetry" THEN "retry" ELSE "orig"
Awaited == <<run, batch_idx, Round>>
IsAwaited(r) == pc \in {"await", "awaitRetry"} /\ r.gid = Awaited

Unresolved(r) == r.st \in {"wait", "call", "sleep"}

\* a task that resolves stays until its gather call returns; the result of a
\* task whose gather call has already raised is dropped
Resolve(r, new) ==
    reqs' = IF IsAwaited(r) THEN (reqs \ {r}) \cup {new} ELSE reqs \ {r}

\* _retry_call: the delay after failed attempt number attempt (from 0), in
\* tenths of a second: (2 ** attempt) + (0.1 * (attempt + 1))
Delay(attempt) == 10 * 2^attempt + (attempt + 1)

\* _complete_async: "async with self.semaphore".  A task that finds the
\* semaphore free takes its permit when it is started or woken, before the
\* event loop turns to anything else: every other step waits for it.
CanAcquire == sem > 0 /\ \E r \in reqs : r.st = "wait"

Acquire ==
    \E r \in reqs :
        /\ r.st = "wait"
        /\ sem > 0
        /\ max_retries > 0
        /\ sem' = sem - 1
        /\ reqs' = (reqs \ {r}) \cup {[r EXCEPT !.st = "call"]}
        /\ UNCHANGED <<inputVars, diskVars, pc, run, bufVars, loopVars, wi, bgVars,
                       issued, answers, prev, writeFailed>>

\* _retry_call with max_retries = 0: "for attempt in range(self.max_retries)"
\* has no iteration, fn() is never called and the function falls off its end:
\* the task enters "async with", returns None and leaves it, all in one turn
NoAttempt ==
    \E r \in reqs :
        /\ r.st = "wait"
        /\ sem > 0
        /\ max_retries = 0
        /\ Resolve(r, [r EXCEPT !.st = "none"])
        /\ UNCHANGED <<inputVars, diskVars, sem, pc, run, bufVars, loopVars, wi, bgVars,
                       issued, answers, prev, writeFailed>>

\* _retry_call: fn() returns; the result leaves "async with" and frees the permit
CallReturns ==
    /\ ~CanAcquire
    /\ \E r \in reqs : \E t \in Responses(kind) :
        /\ r.st = "call"
        /\ sem' = sem + 1
        /\ Resolve(r, [r EXCEPT !.st = "done", !.res = t])
        /\ UNCHANGED <<inputVars, diskVars, pc, run, bufVars, loopVars, wi, bgVars,
                       issued, answers, prev, writeFailed>>

\* the limiter as it would be if "async with self.semaphore" wrapped fn() alone
\* and not _retry_call: the permit is given back for the time of the backoff
CallFailsRetry_ReleasesPermit ==
    /\ ~CanAcquire
    /\ \E r \in reqs :
        /\ r.st = "call"
        /\ r.attempt < max_retries - 1
        /\ sem' = sem + 1
        /\ reqs' = (reqs \ {r}) \cup {[r EXCEPT !.st = "sleep", !.delay = Delay(r.attempt)]}
        /\ UNCHANGED <<inputVars, diskVars, pc, run, bufVars, loopVars, wi, bgVars,
                       issued, answers, prev, writeFailed>>

\* _retry_call: fn() raises and attempts remain: asyncio.sleep(delay), permit kept
CallFailsRetry ==
    /\ ~CanAcquire
    /\ \E r \in reqs :
        /\ r.st = "call"
        /\ r.attempt < max_retries - 1
        /\ reqs' = (reqs \ {r}) \cup {[r EXCEPT !.st = "sleep", !.delay = Delay(r.attempt)]}
        /\ UNCHANGED <<inputVars, diskVars, sem, pc, run, bufVars, loopVars, wi, bgVars,
                       issued, answers, prev, writeFailed>>

\* _retry_call as it would be if the loop did not count its attempts
BackoffEnds_SameAttempt ==
    /\ ~CanAcquire
    /\ \E r \in reqs :
        /\ r.st = "sleep"
        /\ reqs' = (reqs \ {r}) \cup {[r EXCEPT !.st = "call", !.delay = 0]}
        /\ UNCHANGED <<inputVars, diskVars, sem, pc, run, bufVars, loopVars, wi, bgVars,
                       issued, answers, prev, writeFailed>>

\* _retry_call: the sleep ends, next iteration of the for loop
BackoffEnds ==
    /\ ~CanAcquire
    /\ \E r \in reqs :
        /\ r.st = "sleep"
        /\ reqs' = (reqs \ {r}) \cup {[r EXCEPT !.st = "call", !.attempt = r.attempt + 1,
                                                 !.delay = 0]}
        /\ UNCHANGED <<inputVars, diskVars, sem, pc, run, bufVars, loopVars, wi, bgVars,
                       issued, answers, prev, writeFailed>>

\* the last failure as it would be if the raise did not pass through the
\* exit of "async with self.semaphore"
CallFailsLast_KeepsPermit ==
    /\ ~CanAcquire
    /\ \E r \in reqs :
        /\ r.st = "call"
        /\ ~(r.attempt < max_retries - 1)
        /\ sem' = sem
        /\ Resolve(r, [r EXCEPT !.st = "failed"])
        /\ UNCHANGED <<inputVars, diskVars, pc, run, bufVars, loopVars, wi, bgVars,
                       issued, answers, prev, writeFailed>>

\* _retry_call: fn() raises on the last attempt: "raise" leaves "async with"
CallFailsLast ==
    /\ ~CanAcquire
    /\ \E r \in reqs :
        /\ r.st = "call"
        /\ ~(r.attempt < max_retries - 1)
        /\ sem' = sem + 1
        /\ Resolve(r, [r EXCEPT !.st = "failed"])
        /\ UNCHANGED <<inputVars, diskVars, pc, run, bufVars, loopVars, wi, bgVars,
                       issued, answers, prev, writeFailed>>

\* complete_batch_async: one _complete_async task per prompt
NewTasks(gid, srcs) ==
    {[gid |-> gid, slot |-> i, src |-> srcs[i], st |-> "wait", attempt |-> 0, delay |-> 0,
      res |-> <<>>]
        : i \in 1..Len(srcs)}

CountIssued(cnt, srcs) ==
    [s \in DOMAIN cnt \cup Range(srcs) |->
        (IF s \in DOMAIN cnt THEN cnt[s] ELSE 0) + Cardinality({i \in 1..Len(srcs) : srcs[i] = s})]

\* ------------------------------------------- classification of results ---
\* the append as it would be if every record took the uid of its source item,
\* as the records of RatingGenerator do
Accept_UidOfSource(st, uid, text, src) ==
    [st EXCEPT !.pw = Append(@, [uid |-> ItemUid(src), text |-> text, src |-> src]),
               !.ph = Append(@, ItemUid(src))]

Accept(st, uid, text, src) ==
    [st EXCEPT !.pw = Append(@, [uid |-> uid, text |-> text, src |-> src]),
               !.ph = Append(@, uid)]

\* the original round as it would be if a duplicate were dropped without
\* "total_duplicates += 1", as the retry round drops it
ClassifyOne_DupNotCounted(k, eh, st, src, raw) ==
    LET text == Strip(raw) IN
    IF text = <<>> THEN st
    ELSE IF k = "rating" THEN
        IF ~validate_scores(text)
        THEN [st EXCEPT !.rt = Append(@, [src |-> src, attempts |-> 0])]
        ELSE Accept(st, ItemUid(src), text, src)
    ELSE IF k = "code" THEN
        IF ~check_body_format(text) \/ ~check_body_has_code(text)
        THEN [st EXCEPT !.rt = Append(@, [src |-> src, attempts |-> 0])]
        ELSE LET full == combine_skeleton_and_body(ItemText(src), text)
                 uid == compute_hash(full)
             IN  IF uid \in eh \/ uid \in Range(st.ph) THEN st
                 ELSE IF ~validate_syntax(full) THEN st
                 ELSE Accept(st, uid, full, src)
    ELSE LET uid == compute_hash(text)
         IN  IF uid \in eh \/ uid \in Range(st.ph) THEN st
             ELSE Accept(st, uid, text, src)

\* the body of "for result in result_list" of the original round
ClassifyOne(k, eh, st, src, raw) ==
    LET text == Strip(raw) IN
    IF text = <<>> THEN st
    ELSE IF k = "rating" THEN
        IF ~validate_scores(text)
        THEN [st EXCEPT !.rt = Append(@, [src |-> src, attempts |-> 0])]
        ELSE Accept(st, ItemUid(src), text, src)
    ELSE IF k = "code" THEN
        IF ~check_body_format(text) \/ ~check_body_has_code(text)
        THEN [st EXCEPT !.rt = Append(@, [src |-> src, attempts |-> 0])]
        ELSE LET full == combine_skeleton_and_body(ItemText(src), text)
                 uid == compute_hash(full)
             IN  IF uid \in eh \/ uid \in Range(st.ph) THEN [st EXCEPT !.dups = @ + 1]
                 ELSE IF ~validate_syntax(full) THEN st
                 ELSE Accept(st, uid, full, src)
    ELSE LET uid == compute_hash(text)
         IN  IF uid \in eh \/ uid \in Range(st.ph) THEN [st EXCEPT !.dups = @ + 1]
             ELSE Accept(st, uid, text, src)

\* the retry round as it would be if it recorded the identifier before the
\* syntax check
ClassifyRetry_HashBeforeSyntax(k, eh, st, src, raw) ==
    LET text == Strip(raw) IN
    IF k = "rating" THEN
        IF text # <<>> /\ validate_scores(text) THEN Accept(st, ItemUid(src), text, src)
        ELSE st
    ELSE
        IF text # <<>> /\ check_body_format(text) /\ check_body_has_code(text)
        THEN LET full == combine_skeleton_and_body(ItemText(src), text)
                 uid == compute_hash(full)
             IN  IF uid \notin eh /\ uid \notin Range(st.ph)
                 THEN IF ~validate_syntax(full) THEN [st EXCEPT !.ph = Append(@, uid)]
                      ELSE Accept(st, uid, full, src)
                 ELSE st
        ELSE st

\* the body of "for result in result_list" of the retry round
ClassifyRetry(k, eh, st, src, raw) ==
    LET text == Strip(raw) IN
    IF k = "rating" THEN
        IF text # <<>> /\ validate_scores(text) THEN Accept(st, ItemUid(src), text, src)
        ELSE st
    ELSE
        IF text # <<>> /\ check_body_format(text) /\ check_body_has_code(text)
        THEN LET full == combine_skeleton_and_body(ItemText(src), text)
                 uid == compute_hash(full)
             IN  IF uid \notin eh /\ uid \notin Range(st.ph)
                 THEN IF ~validate_syntax(full) THEN st ELSE Accept(st, uid, full, src)
                 ELSE st
        ELSE st

\* "for idx, result_list in enumerate(batch_results)": results in input order
RECURSIVE ClassifyAll(_, _, _, _, _, _)
ClassifyAll(k, round, eh, st, srcs, results) ==
    IF srcs = <<>> THEN st
    ELSE ClassifyAll(k, round, eh,
                     IF round = "orig" THEN ClassifyOne(k, eh, st, Head(srcs), Head(results))
                     ELSE ClassifyRetry(k, eh, st, Head(srcs), Head(results)),
                     Tail(srcs), Tail(results))

\* the validator's verdict on a response: Discard ("empty"), Regenerate
\* ("regen"), rejected by the syntax check ("invalid") or well-formed ("ok")
Verdict(k, raw) ==
    LET text == Strip(raw) IN
    IF text = <<>> THEN "empty"
    ELSE IF k = "rating" THEN (IF validate_scores(text) THEN "ok" ELSE "regen")
    ELSE IF k = "code" THEN
        (IF ~check_body_format(text) \/ ~check_body_has_code(text) THEN "regen"
         ELSE IF ~validate_syntax(combine_skeleton_and_body(<<>>, text)) THEN "invalid"
         ELSE "ok")
    ELSE "ok"

\* what is kept of a response: of a transform stage the validator's verdict,
\* of a sampling stage, which has no validator, the stripped text
Answer(k, raw) == IF k \in SamplingKinds THEN Strip(raw) ELSE Verdict(k, raw)

RecordAnswers(ans, srcs, results) ==
    [s \in DOMAIN ans \cup Range(srcs) |->
        LET old == IF s \in DOMAIN ans THEN ans[s] ELSE <<>>
            at == {i \in 1..Len(srcs) : srcs[i] = s}
        IN  IF at = {} THEN old
            ELSE Append(old, Answer(kind, results[CHOOSE i \in at : TRUE]))]

\* ------------------------------------------------------ initial state ---
\* what a run of generator k writes when the response to its first item is
\* "x": the record (pw) and its identifier (ph)
EarlierRun(k) ==
    ClassifyOne(k, {}, [pw |-> <<>>, ph |-> <<>>, dups |-> 0, rt |-> <<>>], 1, <<"x">>)

\* the state after the client is built with max_retries = mr, over an empty
\* output directory or, with prior, over the directory an earlier run left
\* after it accepted and wrote the response "x" for the first item
InitOver(mr, prior) ==
    /\ kind \in Kinds
    /\ num_samples \in 1..MaxSamples
    /\ batch_write_size \in 1..MaxWriteSize
    /\ capacity \in 1..MaxConcurrent
    /\ max_retries = mr
    /\ artLog = (IF prior THEN EarlierRun(kind).pw ELSE <<>>)
    /\ hashLog = (IF prior THEN EarlierRun(kind).ph ELSE <<>>)
    /\ sem = capacity
    /\ reqs = {}
    /\ pc = "idle"
    /\ run = 0
    /\ items = <<>>
    /\ existing_hashes = {}
    /\ pending_write = <<>>
    /\ pending_hashes = <<>>
    /\ all_results = <<>>
    /\ total_generated = 0
    /\ total_duplicates = 0
    /\ batch_idx = 0
    /\ num_batches = 0
    /\ max_concurrent = 0
    /\ retry_tasks = <<>>
    /\ wi = 0
    /\ write_data = <<>>
    /\ write_hashes = <<>>
    /\ bg = {}
    /\ issued = <<>>
    /\ answers = <<>>
    /\ writeFailed = FALSE
    /\ prev = [end |-> "none", writeFailed |-> FALSE, log |-> {}]

\* the state after the client is built with max_retries = mr
InitWith(mr) == InitOver(mr, FALSE)

Init == InitWith(TransportRetries)

\* ---------------------------------------------------------- generate() ---
\* the loading as it would be if RatingGenerator cut the list to num_samples
\* before it filtered out the implementations already rated
LoadItems_LimitFirst(k, eh) ==
    LET cut == SubSeq(InputFile, 1, Min(num_samples, Len(InputFile)))
    IN  IF k \in SamplingKinds THEN <<>>
        ELSE IF k = "rating" THEN SelectSeq(cut, LAMBDA i : ItemUid(i) \notin eh)
        ELSE cut

\* the source items of a run: problems[:num_samples], skeletons[:num_samples],
\* and for ratings the implementations not yet rated, [:num_samples]
LoadItems(k, eh) ==
    LET all == IF k = "rating" THEN SelectSeq(InputFile, LAMBDA i : ItemUid(i) \notin eh)
               ELSE InputFile
    IN  IF k \in SamplingKinds THEN <<>> ELSE SubSeq(all, 1, Min(num_samples, Len(all)))

\* number of requests the run is to make
Total(k, its) == IF k \in SamplingKinds THEN num_samples ELSE Len(its)

\* max_concurrent as read from client.semaphore._value
ReadMaxConcurrent(k, value) ==
    IF k = "names" /\ value = 0 THEN capacity ELSE value

\* the source items of the batch at the top of the for loop, <<>> when the loop ends
BatchSrcs ==
    LET start == batch_idx * max_concurrent
        size == IF batch_idx >= num_batches THEN 0
                ELSE IF kind = "problem" THEN Min(max_concurrent, num_samples - total_generated)
                ELSE IF kind = "names" THEN Min(max_concurrent, num_samples - start)
                ELSE Min(start + max_concurrent, Len(items)) - start
    IN  IF size <= 0 THEN <<>>
        ELSE IF kind \in SamplingKinds THEN [i \in 1..size |-> start + i]
        ELSE SubSeq(items, start + 1, start + size)

\* generate() up to the for loop
Setup ==
    /\ run' = run + 1
    /\ LET eh == Range(hashLog)
           its == LoadItems(kind, eh)
           mc == ReadMaxConcurrent(kind, sem)
       IN  /\ existing_hashes' = eh
           /\ items' = its
           /\ max_concurrent' = mc
           /\ IF kind \notin SamplingKinds /\ its = <<>>
              THEN pc' = "returned" /\ num_batches' = 0
              ELSE IF mc = 0
              THEN pc' = "raised" /\ num_batches' = 0
              ELSE pc' = "loop" /\ num_batches' = Ceil(Total(kind, its), mc)
    /\ pending_write' = <<>>
    /\ pending_hashes' = <<>>
    /\ all_results' = <<>>
    /\ total_generated' = 0
    /\ total_duplicates' = 0
    /\ batch_idx' = 0
    /\ retry_tasks' = <<>>
    /\ wi' = 0
    /\ issued' = <<>>
    /\ answers' = <<>>
    /\ writeFailed' = FALSE
    /\ prev' = [end |-> pc, writeFailed |-> writeFailed, log |-> Range(hashLog)]
    /\ UNCHANGED <<inputVars, diskVars, clientVars, bgVars>>

\* the first run over the output directory
StartRun ==
    /\ pc = "idle"
    /\ Setup

\* the second run over the same output directory: by the same process after
\* generate() returned or raised (same client), or by a new process
StartNextRun ==
    /\ pc \in {"returned", "raised", "dead"}
    /\ run = 1
    /\ Setup

\* top of the for loop: the next batch is handed to complete_batch_async
IssueBatch ==
    /\ ~CanAcquire
    /\ pc = "loop"
    /\ BatchSrcs # <<>>
    /\ pc' = "await"
    /\ reqs' = reqs \cup NewTasks(<<run, batch_idx, "orig">>, BatchSrcs)
    /\ issued' = CountIssued(issued, BatchSrcs)
    /\ retry_tasks' = <<>>
    /\ UNCHANGED <<inputVars, diskVars, sem, run, bufVars, items, total_generated,
                   total_duplicates, batch_idx, num_batches, max_concurrent, wi, bgVars,
                   answers, writeFailed, prev>>

\* the for loop as it would be if it could be left before its last batch
LoopExit_Early ==
    /\ ~CanAcquire
    /\ pc = "loop"
    /\ pc' = IF pending_write # <<>> THEN "finalArt"
             ELSE IF kind = "names" THEN "finalSleep" ELSE "returned"
    /\ wi' = 0
    /\ UNCHANGED <<inputVars, diskVars, clientVars, run, bufVars, loopVars, bgVars,
                   issued, answers, prev, writeFailed>>

\* the for loop ends: "if pending_write:" decides on the final write
LoopExit ==
    /\ ~CanAcquire
    /\ pc = "loop"
    /\ BatchSrcs = <<>>
    /\ pc' = IF pending_write # <<>> THEN "finalArt"
             ELSE IF kind = "names" THEN "finalSleep" ELSE "returned"
    /\ wi' = 0
    /\ UNCHANGED <<inputVars, diskVars, clientVars, run, bufVars, loopVars, bgVars,
                   issued, answers, prev, writeFailed>>

\* the tasks of the gather call generate() is suspended on, in input order
AwaitedReqs == {r \in reqs : IsAwaited(r)}
\* the source items as they would be read with "batch_items[0]" for every result
AwaitedSrcs_AlwaysFirst ==
    [i \in 1..Cardinality(AwaitedReqs) |-> (CHOOSE r \in AwaitedReqs : r.slot = 1).src]

AwaitedSrcs ==
    [i \in 1..Cardinality(AwaitedReqs) |-> (CHOOSE r \in AwaitedReqs : r.slot = i).src]
\* gather as it would be if it returned the results in another order than
\* that of the prompts
AwaitedResults_Reversed ==
    [i \in 1..Cardinality(AwaitedReqs) |->
        (CHOOSE r \in AwaitedReqs : r.slot = Cardinality(AwaitedReqs) + 1 - i).res]

AwaitedResults ==
    [i \in 1..Cardinality(AwaitedReqs) |-> (CHOOSE r \in AwaitedReqs : r.slot = i).res]

\* the flush check as it would be with "if len(pending_write) > batch_write_size"
AfterBatch_AboveThreshold(pw, ph, size) ==
    /\ total_generated' = total_generated + size
    /\ wi' = 0
    /\ IF Len(pw) > batch_write_size
       THEN IF kind = "names"
            THEN /\ write_data' = pw
                 /\ write_hashes' = ph
                 /\ bg' = bg \cup {[id |-> <<run, batch_idx>>, st |-> "new", data |-> <<>>, i |-> 0]}
                 /\ existing_hashes' = existing_hashes \cup Range(ph)
                 /\ all_results' = all_results \o pw
                 /\ pending_write' = <<>>
                 /\ pending_hashes' = <<>>
                 /\ pc' = "loop"
                 /\ batch_idx' = batch_idx + 1
            ELSE /\ pending_write' = pw
                 /\ pending_hashes' = ph
                 /\ pc' = "flushArt"
                 /\ UNCHANGED <<existing_hashes, all_results, batch_idx, bgVars>>
       ELSE /\ pending_write' = pw
            /\ pending_hashes' = ph
            /\ pc' = "loop"
            /\ batch_idx' = batch_idx + 1
            /\ UNCHANGED <<existing_hashes, all_results, bgVars>>

\* after the results of a batch: the counter, then "if len(pending_write) >=
\* batch_write_size".  The four generators start the awaited write; in
\* generate_function_names the write is handed to a write_batch task and the
\* buffer is moved to the results at once.
AfterBatch(pw, ph, size) ==
    /\ total_generated' = total_generated + size
    /\ wi' = 0
    /\ IF Len(pw) >= batch_write_size
       THEN IF kind = "names"
            THEN /\ write_data' = pw
                 /\ write_hashes' = ph
                 /\ bg' = bg \cup {[id |-> <<run, batch_idx>>, st |-> "new", data |-> <<>>, i |-> 0]}
                 /\ existing_hashes' = existing_hashes \cup Range(ph)
                 /\ all_results' = all_results \o pw
                 /\ pending_write' = <<>>
                 /\ pending_hashes' = <<>>
                 /\ pc' = "loop"
                 /\ batch_idx' = batch_idx + 1
            ELSE /\ pending_write' = pw
                 /\ pending_hashes' = ph
                 /\ pc' = "flushArt"
                 /\ UNCHANGED <<existing_hashes, all_results, batch_idx, bgVars>>
       ELSE /\ pending_write' = pw
            /\ pending_hashes' = ph
            /\ pc' = "loop"
            /\ batch_idx' = batch_idx + 1
            /\ UNCHANGED <<existing_hashes, all_results, bgVars>>

\* the original round as it would be if it were classified, and its retry round
\* submitted, as soon as one of its requests has returned
GatherReturns_FirstDone ==
    /\ ~CanAcquire
    /\ pc = "await"
    /\ AwaitedReqs # {}
    /\ \E r \in AwaitedReqs : r.st = "done"
    /\ LET st == ClassifyAll(kind, "orig", existing_hashes,
                             [pw |-> pending_write, ph |-> pending_hashes,
                              dups |-> total_duplicates, rt |-> <<>>],
                             AwaitedSrcs, AwaitedResults)
           rsrcs == [i \in 1..Len(st.rt) |-> st.rt[i].src]
       IN  /\ total_duplicates' = st.dups
           /\ retry_tasks' = st.rt
           /\ IF st.rt # <<>>
              THEN /\ pc' = "awaitRetry"
                   /\ reqs' = (reqs \ AwaitedReqs) \cup NewTasks(<<run, batch_idx, "retry">>, rsrcs)
                   /\ issued' = CountIssued(issued, rsrcs)
                   /\ pending_write' = st.pw
                   /\ pending_hashes' = st.ph
                   /\ UNCHANGED <<existing_hashes, all_results, total_generated, batch_idx,
                                  wi, bgVars>>
              ELSE /\ reqs' = reqs \ AwaitedReqs
                   /\ issued' = issued
                   /\ AfterBatch(st.pw, st.ph, Cardinality(AwaitedReqs))
    /\ answers' = RecordAnswers(answers, AwaitedSrcs, AwaitedResults)
    /\ UNCHANGED <<inputVars, diskVars, sem, run, items, num_batches, max_concurrent,
                   writeFailed, prev>>

\* complete_batch_async returns: every task of the batch has a result
GatherReturns ==
    /\ ~CanAcquire
    /\ pc = "await"
    /\ AwaitedReqs # {}
    /\ \A r \in AwaitedReqs : r.st = "done"
    /\ LET st == ClassifyAll(kind, "orig", existing_hashes,
                             [pw |-> pending_write, ph |-> pending_hashes,
                              dups |-> total_duplicates, rt |-> <<>>],
                             AwaitedSrcs, AwaitedResults)
           rsrcs == [i \in 1..Len(st.rt) |-> st.rt[i].src]
       IN  /\ total_duplicates' = st.dups
           /\ retry_tasks' = st.rt
           /\ IF st.rt # <<>>
              THEN /\ pc' = "awaitRetry"
                   /\ reqs' = (reqs \ AwaitedReqs) \cup NewTasks(<<run, batch_idx, "retry">>, rsrcs)
                   /\ issued' = CountIssued(issued, rsrcs)
                   /\ pending_write' = st.pw
                   /\ pending_hashes' = st.ph
                   /\ UNCHANGED <<existing_hashes, all_results, total_generated, batch_idx,
                                  wi, bgVars>>
              ELSE /\ reqs' = reqs \ AwaitedReqs
                   /\ issued' = issued
                   /\ AfterBatch(st.pw, st.ph, Cardinality(AwaitedReqs))
    /\ answers' = RecordAnswers(answers, AwaitedSrcs, AwaitedResults)
    /\ UNCHANGED <<inputVars, diskVars, sem, run, items, num_batches, max_concurrent,
                   writeFailed, prev>>

\* asyncio.gather without return_exceptions: the first failure of a task is
\* raised to the caller at once; the other tasks of the batch are not
\* cancelled and go on running.  The four generators catch it in the
\* batch-level "except Exception" and go to the next batch;
\* generate_function_names has no handler and raises.
GatherRaises ==
    /\ ~CanAcquire
    /\ pc = "await"
    /\ \E r \in AwaitedReqs : r.st = "failed"
    /\ reqs' = {r \in reqs : ~IsAwaited(r) \/ Unresolved(r)}
    /\ IF kind = "names"
       THEN pc' = "raised" /\ batch_idx' = batch_idx
       ELSE pc' = "loop" /\ batch_idx' = batch_idx + 1
    /\ UNCHANGED <<inputVars, diskVars, sem, run, bufVars, items, total_generated,
                   total_duplicates, num_batches, max_concurrent, retry_tasks, wi, bgVars,
                   issued, answers, prev, writeFailed>>

\* complete_batch_async returns a list of None: "for result in result_list"
\* raises TypeError on the first of them, which the four generators catch in
\* the batch-level "except Exception"; generate_function_names raises
GatherReturnsNothing ==
    /\ ~CanAcquire
    /\ pc = "await"
    /\ AwaitedReqs # {}
    /\ \A r \in AwaitedReqs : r.st = "none"
    /\ reqs' = reqs \ AwaitedReqs
    /\ IF kind = "names"
       THEN pc' = "raised" /\ batch_idx' = batch_idx
       ELSE pc' = "loop" /\ batch_idx' = batch_idx + 1
    /\ UNCHANGED <<inputVars, diskVars, sem, run, bufVars, items, total_generated,
                   total_duplicates, num_batches, max_concurrent, retry_tasks, wi, bgVars,
                   issued, answers, prev, writeFailed>>

\* the retry round returns: "task['attempts'] += 1" and the retry results
RetryReturns ==
    /\ ~CanAcquire
    /\ pc = "awaitRetry"
    /\ AwaitedReqs # {}
    /\ \A r \in AwaitedReqs : r.st = "done"
    /\ LET st == ClassifyAll(kind, "retry", existing_hashes,
                             [pw |-> pending_write, ph |-> pending_hashes,
                              dups |-> total_duplicates, rt |-> retry_tasks],
                             AwaitedSrcs, AwaitedResults)
       IN  /\ retry_tasks' = [i \in 1..Len(retry_tasks) |->
                                [retry_tasks[i] EXCEPT !.attempts = @ + 1]]
           /\ AfterBatch(st.pw, st.ph, Len(BatchSrcs))
    /\ reqs' = reqs \ AwaitedReqs
    /\ answers' = RecordAnswers(answers, AwaitedSrcs, AwaitedResults)
    /\ UNCHANGED <<inputVars, diskVars, sem, run, items, total_duplicates, num_batches,
                   max_concurrent, issued, prev, writeFailed>>

\* the retry round raises: the inner "except Exception" logs it and the
\* batch goes on to its counters and its write
RetryRaises ==
    /\ ~CanAcquire
    /\ pc = "awaitRetry"
    /\ \E r \in AwaitedReqs : r.st = "failed"
    /\ reqs' = {r \in reqs : ~IsAwaited(r) \/ Unresolved(r)}
    /\ AfterBatch(pending_write, pending_hashes, Len(BatchSrcs))
    /\ UNCHANGED <<inputVars, diskVars, sem, run, items, total_duplicates, num_batches,
                   max_concurrent, retry_tasks, issued, answers, prev, writeFailed>>

\* ------------------------------------------------------ awaited writes ---
InLoopWrite == pc \in {"flushArt", "flushHash"}
FinalWrite == pc \in {"finalArt", "finalHash"}

\* _write_jsonl: one f.write per record; after the last one _write_hashes starts
WriteArtLine ==
    /\ ~CanAcquire
    /\ pc \in {"flushArt", "finalArt"}
    /\ wi < Len(pending_write)
    /\ artLog' = Append(artLog, pending_write[wi + 1])
    /\ IF wi + 1 = Len(pending_write)
       THEN wi' = 0 /\ pc' = (IF pc = "flushArt" THEN "flushHash" ELSE "finalHash")
       ELSE wi' = wi + 1 /\ pc' = pc
    /\ UNCHANGED <<inputVars, hashLog, clientVars, run, bufVars, loopVars, bgVars,
                   issued, answers, prev, writeFailed>>

\* the in-loop write as it would be without "existing_hashes.update(pending_hashes)"
WriteHashLine_NoUpdate ==
    /\ ~CanAcquire
    /\ pc \in {"flushHash", "finalHash"}
    /\ wi < Len(pending_hashes)
    /\ hashLog' = Append(hashLog, pending_hashes[wi + 1])
    /\ IF wi + 1 < Len(pending_hashes)
       THEN /\ wi' = wi + 1
            /\ UNCHANGED <<pc, bufVars, batch_idx>>
       ELSE /\ wi' = 0
            /\ all_results' = all_results \o pending_write
            /\ IF pc = "flushHash"
               THEN /\ existing_hashes' = existing_hashes
                    /\ pending_write' = <<>>
                    /\ pending_hashes' = <<>>
                    /\ pc' = "loop"
                    /\ batch_idx' = batch_idx + 1
               ELSE /\ pc' = (IF kind = "names" THEN "finalSleep" ELSE "returned")
                    /\ UNCHANGED <<existing_hashes, pending_write, pending_hashes, batch_idx>>
    /\ UNCHANGED <<inputVars, artLog, clientVars, run, items, total_generated,
                   total_duplicates, num_batches, max_concurrent, retry_tasks, bgVars,
                   issued, answers, prev, writeFailed>>

\* _write_hashes: one f.write per identifier.  After the last one the in-loop
\* write merges the buffer into existing_hashes and all_results and empties
\* it; the final write extends all_results and generate() returns.
WriteHashLine ==
    /\ ~CanAcquire
    /\ pc \in {"flushHash", "finalHash"}
    /\ wi < Len(pending_hashes)
    /\ hashLog' = Append(hashLog, pending_hashes[wi + 1])
    /\ IF wi + 1 < Len(pending_hashes)
       THEN /\ wi' = wi + 1
            /\ UNCHANGED <<pc, bufVars, batch_idx>>
       ELSE /\ wi' = 0
            /\ all_results' = all_results \o pending_write
            /\ IF pc = "flushHash"
               THEN /\ existing_hashes' = existing_hashes \cup Range(pending_hashes)
                    /\ pending_write' = <<>>
                    /\ pending_hashes' = <<>>
                    /\ pc' = "loop"
                    /\ batch_idx' = batch_idx + 1
               ELSE /\ pc' = (IF kind = "names" THEN "finalSleep" ELSE "returned")
                    /\ UNCHANGED <<existing_hashes, pending_write, pending_hashes, batch_idx>>
    /\ UNCHANGED <<inputVars, artLog, clientVars, run, items, total_generated,
                   total_duplicates, num_batches, max_concurrent, retry_tasks, bgVars,
                   issued, answers, prev, writeFailed>>

\* open() or f.write() raises.  In the loop the batch-level "except Exception"
\* logs it and the for loop goes on; after the loop nothing catches it.
WriteFails ==
    /\ ~CanAcquire
    /\ InLoopWrite \/ FinalWrite
    /\ writeFailed' = TRUE
    /\ wi' = 0
    /\ IF InLoopWrite
       THEN pc' = "loop" /\ batch_idx' = batch_idx + 1
       ELSE pc' = "raised" /\ batch_idx' = batch_idx
    /\ UNCHANGED <<inputVars, diskVars, clientVars, run, bufVars, items, total_generated,
                   total_duplicates, num_batches, max_concurrent, retry_tasks, bgVars,
                   issued, answers, prev>>

\* generate_function_names: "await asyncio.sleep(0.5)" ends and it returns
SleepEnds ==
    /\ ~CanAcquire
    /\ pc = "finalSleep"
    /\ pc' = "returned"
    /\ UNCHANGED <<inputVars, diskVars, clientVars, run, bufVars, loopVars, wi, bgVars,
                   issued, answers, prev, writeFailed>>

\* ------------------------------------- write_batch, the background write ---
\* the first to_thread runs its lambda, which reads the cell write_data
BgStarts ==
    /\ ~CanAcquire
    /\ \E t \in bg :
        /\ t.st = "new"
        /\ bg' = (bg \ {t}) \cup {[t EXCEPT !.st = "art", !.data = write_data]}
        /\ UNCHANGED <<inputVars, diskVars, clientVars, pc, run, bufVars, loopVars, wi,
                       write_data, write_hashes, issued, answers, prev, writeFailed>>

\* _write_jsonl in the thread; after the last record the second to_thread
\* runs its lambda, which reads the cell write_hashes
BgWriteArtLine ==
    /\ ~CanAcquire
    /\ \E t \in bg :
        /\ t.st = "art"
        /\ t.i < Len(t.data)
        /\ artLog' = Append(artLog, t.data[t.i + 1])
        /\ bg' = (bg \ {t}) \cup
                 {IF t.i + 1 = Len(t.data)
                  THEN [t EXCEPT !.st = "hash", !.data = write_hashes, !.i = 0]
                  ELSE [t EXCEPT !.i = t.i + 1]}
        /\ UNCHANGED <<inputVars, hashLog, clientVars, pc, run, bufVars, loopVars, wi,
                       write_data, write_hashes, issued, answers, prev, writeFailed>>

\* _write_hashes in the thread; after the last identifier the task ends
BgWriteHashLine ==
    /\ ~CanAcquire
    /\ \E t \in bg :
        /\ t.st = "hash"
        /\ t.i < Len(t.data)
        /\ hashLog' = Append(hashLog, t.data[t.i + 1])
        /\ bg' = (bg \ {t}) \cup
                 (IF t.i + 1 = Len(t.data) THEN {} ELSE {[t EXCEPT !.i = t.i + 1]})
        /\ UNCHANGED <<inputVars, artLog, clientVars, pc, run, bufVars, loopVars, wi,
                       write_data, write_hashes, issued, answers, prev, writeFailed>>

\* a write of write_batch raises: its own "except Exception" logs it
BgWriteFails ==
    /\ ~CanAcquire
    /\ \E t \in bg :
        /\ t.st \in {"art", "hash"}
        /\ bg' = bg \ {t}
        /\ writeFailed' = TRUE
        /\ UNCHANGED <<inputVars, diskVars, clientVars, pc, run, bufVars, loopVars, wi,
                       write_data, write_hashes, issued, answers, prev>>

\* ---------------------------------------------------------- the process ---
\* the process ends or dies: tasks, threads and memory are gone, the files stay; the
\* next run is a new process with a new client
Crash ==
    /\ ~CanAcquire
    /\ pc \notin {"idle", "dead"}
    /\ pc' = "dead"
    /\ reqs' = {}
    /\ sem' = capacity
    /\ bg' = {}
    /\ write_data' = <<>>
    /\ write_hashes' = <<>>
    /\ items' = <<>>
    /\ existing_hashes' = {}
    /\ pending_write' = <<>>
    /\ pending_hashes' = <<>>
    /\ all_results' = <<>>
    /\ total_generated' = 0
    /\ total_duplicates' = 0
    /\ batch_idx' = 0
    /\ num_batches' = 0
    /\ max_concurrent' = 0
    /\ retry_tasks' = <<>>
    /\ wi' = 0
    /\ issued' = <<>>
    /\ answers' = <<>>
    /\ UNCHANGED <<inputVars, diskVars, run, writeFailed, prev>>

RunStep ==
    \/ IssueBatch \/ LoopExit
    \/ Acquire \/ CallReturns \/ CallFailsRetry \/ BackoffEnds \/ CallFailsLast
    \/ GatherReturns \/ GatherRaises \/ RetryReturns \/ RetryRaises
    \/ WriteArtLine \/ WriteHashLine \/ WriteFails \/ SleepEnds
    \/ BgStarts \/ BgWriteArtLine \/ BgWriteHashLine \/ BgWriteFails
    \/ Crash

\* one run of one generator over an empty output directory
Next == StartRun \/ RunStep

Spec == Init /\ [][Next]_vars

\* runs that follow one another over the same output directory
NextRuns == StartRun \/ StartNextRun \/ RunStep

InitRuns == Init /\ num_samples < MaxSamples

SpecRuns == InitRuns /\ [][NextRuns]_vars

\* one run that writes after every batch that accepted something
\* (batch_write_size = 1): the requests, their retries and the tasks left
\* behind by a batch call that raised are those of Spec
InitEager == Init /\ batch_write_size = 1

SpecEager == InitEager /\ [][Next]_vars

\* one run of a sampling stage (ProblemGenerator, generate_function_names):
\* these have no retry round
InitSampling == Init /\ kind \in SamplingKinds

NextSampling ==
    \/ StartRun \/ IssueBatch \/ LoopExit
    \/ Acquire \/ CallReturns \/ CallFailsRetry \/ BackoffEnds \/ CallFailsLast
    \/ GatherReturns \/ GatherRaises
    \/ WriteArtLine \/ WriteHashLine \/ WriteFails \/ SleepEnds
    \/ BgStarts \/ BgWriteArtLine \/ BgWriteHashLine \/ BgWriteFails
    \/ Crash

SpecSampling == InitSampling /\ [][NextSampling]_vars

\* one run of a sampling stage with a client of any max_retries >= 1
InitRetry ==
    /\ \E mr \in 1..TransportRetries : InitWith(mr)
    /\ kind \in SamplingKinds
    /\ batch_write_size = 1

SpecRetry == InitRetry /\ [][NextSampling]_vars

\* one run with a client that makes a single attempt per request
\* (max_retries = 1): a request that fails raises at once, there is no backoff
InitSingle == InitWith(1)

NextSingle ==
    \/ StartRun \/ IssueBatch \/ LoopExit
    \/ Acquire \/ CallReturns \/ CallFailsLast
    \/ GatherReturns \/ GatherRaises \/ RetryReturns \/ RetryRaises
    \/ WriteArtLine \/ WriteHashLine \/ WriteFails \/ SleepEnds
    \/ BgStarts \/ BgWriteArtLine \/ BgWriteHashLine \/ BgWriteFails
    \/ Crash

SpecSingle == InitSingle /\ [][NextSingle]_vars

\* scripts/generate_funcnames.py, run_generation: after generate_function_names
\* has returned, {mode}_results.jsonl of data/generated/names/{mode}, which is
\* the artifact log of the run when io.out_names_dir is left to its default,
\* is opened with "w" and the returned results are written to it
SaveResults ==
    /\ ~CanAcquire
    /\ kind = "names"
    /\ pc = "returned"
    /\ pc' = "saved"
    /\ artLog' = all_results
    /\ UNCHANGED <<inputVars, hashLog, clientVars, run, bufVars, loopVars, wi, bgVars,
                   issued, answers, prev, writeFailed>>

\* the function-name script run again and again over its output directory:
\* each run is generate_function_names, then run_generation's save, then the
\* end of the process
InitScript == Init /\ kind = "names" /\ num_samples < MaxSamples

NextScript == NextSampling \/ StartNextRun \/ SaveResults

SpecScript == InitScript /\ [][NextScript]_vars

\* one run of ProblemGenerator, SkeletonGenerator or CodeGenerator, over an
\* empty output directory or over one an earlier run left, with a client
\* that makes a single attempt per request
InitAwaited ==
    /\ \E prior \in BOOLEAN : InitOver(1, prior)
    /\ kind \in {"problem", "skeleton", "code"}

NextAwaited ==
    \/ StartRun \/ IssueBatch \/ LoopExit
    \/ Acquire \/ CallReturns \/ CallFailsLast
    \/ GatherReturns \/ GatherRaises \/ RetryReturns \/ RetryRaises
    \/ WriteArtLine \/ WriteHashLine \/ WriteFails
    \/ Crash

SpecAwaited == InitAwaited /\ [][NextAwaited]_vars

\* one run of a sampling stage or of a stage with a retry round, in which
\* the process does not die and nothing that can happen is put off for ever:
\* every remote call and every sleep ends, every write returns or raises,
\* and the event loop runs the tasks that are ready
InitLive == Init /\ kind \in {"problem", "rating"}

StepLive ==
    \/ IssueBatch \/ LoopExit
    \/ Acquire \/ CallReturns \/ CallFailsRetry \/ BackoffEnds \/ CallFailsLast
    \/ GatherReturns \/ GatherRaises \/ RetryReturns \/ RetryRaises
    \/ WriteArtLine \/ WriteHashLine \/ WriteFails

NextLive == StartRun \/ StepLive

SpecLive == InitLive /\ [][NextLive]_vars /\ WF_vars(StepLive)

\* one run of RatingGenerator, over an empty output directory or over one in
\* which the first implementation is already rated, with a client that makes
\* a single attempt per request
InitRating == (\E prior \in BOOLEAN : InitOver(1, prior)) /\ kind = "rating"

SpecRating == InitRating /\ [][NextAwaited]_vars

\* one run of a sampling stage with a client of any max_retries, 0 included
\* (api.max_retries is passed on as it is configured)
InitAnyRetries ==
    /\ \E mr \in 0..TransportRetries : InitWith(mr)
    /\ kind \in SamplingKinds
    /\ batch_write_size = 1

NextAnyRetries == NextSampling \/ NoAttempt \/ GatherReturnsNothing

SpecAnyRetries == InitAnyRetries /\ [][NextAnyRetries]_vars

\* ------------------------------------------------------------- claims ---
ArtUids == {artLog[i].uid : i \in 1..Len(artLog)}

\* C1: every identifier in the identifier log has a record with that uid in
\* the artifact log.  Both logs only grow, so holding in every reachable
\* state (those after a crash included) means the record was appended no
\* later than the identifier.
C1_NoOrphanIdentifier ==
    \A i \in 1..Len(hashLog) : hashLog[i] \in ArtUids

NoDuplicateRecord ==
    \A i, j \in 1..Len(artLog) : artLog[i].uid = artLog[j].uid => i = j

\* C2: when a run ended in a crash and a new run is started over the same
\* output directory, the artifact log never holds two records with the same
\* identifier.  Stated for the runs in which no durable write raised, where
\* a duplicate can only come from the crash and the restart.
C2_NoDuplicateAfterCrash ==
    (run = 2 /\ prev.end = "dead" /\ ~prev.writeFailed /\ ~writeFailed) => NoDuplicateRecord

\* C3: when a run returned normally and the second run loaded its identifier
\* set from the log the first left, no identifier is in two records of the
\* artifact log.
C3_NoDuplicateAcrossRuns ==
    (run = 2 /\ prev.end = "returned") => NoDuplicateRecord

\* C4: within a single run, no two records of the artifact log carry the
\* same identifier.
C4_NoDuplicateInRun ==
    run = 1 => NoDuplicateRecord

\* C5: no request of a later batch exists while a request of an earlier
\* batch of the run, or of its retry round, is unresolved.
C5_BatchBarrier ==
    \A r1, r2 \in reqs :
        (r1.gid[1] = r2.gid[1] /\ r1.gid[2] < r2.gid[2]) => ~Unresolved(r1)

\* C6: the number of requests that hold a permit (in the remote call or in
\* transport backoff) is at most the client's max_concurrent.
InProgress == {r \in reqs : r.st \in {"call", "sleep"}}

C6_ConcurrencyCap ==
    Cardinality(InProgress) <= capacity

\* the cap is reached while a request waits in backoff and tasks of an
\* abandoned batch and of the next batch exist together
C6_Witness ==
    /\ capacity >= 2
    /\ Cardinality(InProgress) = capacity
    /\ \E r \in InProgress : r.st = "sleep"
    /\ \E r1, r2 \in reqs : r1.gid # r2.gid
    /\ \E r \in reqs : r.st = "wait"

\* what is known of a source item when the run returns
AllRegen(a) == \A i \in 1..Len(a) : a[i] = "regen"
Answered(s) == answers[s] # <<>> /\ Len(answers[s]) = issued[s]
InResults(s) == \E i \in 1..Len(all_results) : all_results[i].src = s
InArtLog(s) == \E i \in 1..Len(artLog) : artLog[i].src = s

\* C7: in the generators that regenerate (code, rating), a source item whose
\* every response is classified Regenerate has been requested exactly
\* max_attempts times when the run returns, and is neither in the returned
\* list nor in the artifact log.
C7_RetryBound ==
    (pc = "returned" /\ kind \in RetryKinds) =>
        \A s \in DOMAIN answers :
            (Answered(s) /\ AllRegen(answers[s])) =>
                /\ issued[s] = MaxAttempts
                /\ ~InResults(s)
                /\ ~InArtLog(s)

\* C8: in the generators that regenerate (code, rating), a source item that
\* answers malformed on attempts 1 to j-1 and valid on attempt j,
\* j <= max_attempts, is accepted with retry count j-1.  When the
\* run returns, an item with fewer than max_attempts answers, all malformed,
\* has been denied the attempt on which it would answer valid; an item whose
\* last answer was the valid one is in the returned list, and its retry task
\* counts the attempts before it.
C8_AcceptedOnAttempt ==
    (pc = "returned" /\ kind \in RetryKinds) =>
        \A s \in DOMAIN answers :
            LET a == answers[s]
                j == Len(a)
            IN  Answered(s) =>
                    /\ ~(AllRegen(a) /\ j < MaxAttempts)
                    /\ (j <= MaxAttempts /\ a[j] = "ok" /\ AllRegen(SubSeq(a, 1, j - 1))) =>
                            /\ InResults(s)
                            /\ \A i \in 1..Len(retry_tasks) :
                                   retry_tasks[i].src = s => retry_tasks[i].attempts = j - 1

\* the identifier the original round gives the response of a task, when it
\* accepts it as a new artifact
Accepts(r) ==
    LET st == ClassifyOne(kind, existing_hashes,
                          [pw |-> <<>>, ph |-> pending_hashes, dups |-> 0, rt |-> <<>>],
                          r.src, r.res)
    IN  IF st.pw = <<>> THEN {} ELSE {st.pw[1].uid}

\* C9: when a request of a batch has exhausted its transport retries and the
\* batch call ends, the run goes on, and the response of every other request
\* of the batch that has returned is classified: if accepted and unique, its
\* identifier is in the pending buffer.
C9_OnlyFailedSlotExcluded ==
    [][(/\ pc = "await"
        /\ \E r \in AwaitedReqs : r.st = "failed"
        /\ pc' \notin {"await", "dead"})
       => /\ pc' # "raised"
          /\ \A r \in AwaitedReqs :
                r.st = "done" => Accepts(r) \subseteq Range(pending_hashes')]_vars

\* C10: once a durable write of the run has failed, no step issues a batch
\* and no step lets generate() return normally.
C10_WriteFailureAborts ==
    [][writeFailed => /\ ~(pc # "await" /\ pc' = "await")
                      /\ ~(pc # "returned" /\ pc' = "returned")]_vars

\* a step in which an awaited write of generate() raises
AwaitedWriteRaises ==
    /\ InLoopWrite \/ FinalWrite
    /\ pc' \notin {pc, "dead"}
    /\ UNCHANGED diskVars

\* a step in which the write of the write_batch task t raises
BgWriteRaises(t) ==
    /\ t \in bg
    /\ bg' = bg \ {t}
    /\ pc' # "dead"
    /\ UNCHANGED diskVars

\* C11: a flush attempt that fails leaves the pending buffer as it was, and
\* none of the artifacts it was to write has been moved to the returned list
\* or to the in-memory identifier set.
C11_BufferIntactOnFailure ==
    [][/\ AwaitedWriteRaises => UNCHANGED bufVars
       /\ \A t \in bg :
            BgWriteRaises(t) =>
                \A i \in 1..Len(t.data) :
                    /\ t.st = "art" => t.data[i] \notin Range(all_results')
                    /\ t.st = "hash" => t.data[i] \notin existing_hashes']_vars

\* the identifiers of a list of records, in order
Uids(recs) == [i \in 1..Len(recs) |-> recs[i].uid]

\* C12: when generate() of one of the four generators with awaited writes
\* returns from a run over an empty output directory, nothing accepted is
\* left unwritten: the artifact log is the returned list, the identifier log
\* is the list of its identifiers, and what the buffer still holds is in
\* the returned list.
C12_FlushedOnReturn ==
    (pc = "returned" /\ kind # "names" /\ run = 1) =>
        /\ artLog = all_results
        /\ hashLog = Uids(all_results)
        /\ Range(pending_write) \subseteq Range(all_results)

\* C13: when generate_function_names returns, no write_batch task is still
\* running, and every artifact of the returned list is in the artifact log
\* with its identifier in the identifier log.
C13_FlushesJoinedOnReturn ==
    (pc = "returned" /\ kind = "names") =>
        /\ bg = {}
        /\ Range(all_results) \subseteq Range(artLog)
        /\ Range(Uids(all_results)) \subseteq Range(hashLog)

\* the identifier the generator computes for a response, if it computes one:
\* none for an empty or malformed response, and none in the rating stage,
\* whose records carry the uid of the implementation
RespUids(k, src, raw) ==
    LET text == Strip(raw) IN
    IF text = <<>> \/ k = "rating" THEN {}
    ELSE IF k = "code"
    THEN IF check_body_format(text) /\ check_body_has_code(text)
         THEN {compute_hash(combine_skeleton_and_body(ItemText(src), text))}
         ELSE {}
    ELSE {compute_hash(text)}

\* the responses of the awaited batch call whose identifier is already in
\* the identifier set or in the pending buffer
KnownDuplicates ==
    {r \in AwaitedReqs :
        RespUids(kind, r.src, r.res) \cap (existing_hashes \cup Range(pending_hashes)) # {}}

\* C14: when the results of a batch call, original or retry, are processed,
\* every response whose identifier is already known counts as a duplicate
\* (one each, and no response counts more than once), none of them is
\* appended to the buffer and none is put in the retry queue.
C14_DuplicateCountedNotRetried ==
    [][(/\ pc \in {"await", "awaitRetry"}
        /\ pc' \notin {pc, "dead"}
        /\ AwaitedReqs # {}
        /\ \A r \in AwaitedReqs : r.st = "done")
       => /\ total_duplicates' >= total_duplicates + Cardinality(KnownDuplicates)
          /\ total_duplicates' <= total_duplicates + Cardinality(AwaitedReqs)
          /\ \A i \in 1..Len(pending_hashes') :
                i > Len(pending_hashes) =>
                    pending_hashes'[i] \notin existing_hashes \cup Range(pending_hashes)
          /\ \A r \in KnownDuplicates : \A i \in 1..Len(retry_tasks') :
                pc = "await" => retry_tasks'[i].src # r.src]_vars

\* the number of requests the run has handed to complete_batch_async
RECURSIVE SumOver(_, _)
SumOver(f, S) ==
    IF S = {} THEN 0
    ELSE LET x == CHOOSE y \in S : TRUE IN f[x] + SumOver(f, S \ {x})

RequestsIssued == SumOver(issued, DOMAIN issued)

\* every batch call of the run so far has returned its results: the counter
\* of processed requests has kept up with the requests issued
EveryBatchSucceeded == total_generated = RequestsIssued

\* C15: in a sampling run in which every batch call succeeds, each batch
\* handed to the client has min(K, N - requests already issued) requests,
\* and when the run returns it has issued ceil(N / K) batches and N requests.
C15_BatchSizes ==
    [][(kind \in SamplingKinds /\ EveryBatchSucceeded) =>
        /\ (pc = "loop" /\ pc' = "await") =>
                Cardinality(reqs' \ reqs) = Min(capacity, num_samples - RequestsIssued)
        /\ (pc # "returned" /\ pc' = "returned") =>
                /\ batch_idx = Ceil(num_samples, capacity)
                /\ RequestsIssued = num_samples]_vars

\* every request of the run has been answered, and no answer was empty
EveryResponseNonEmpty ==
    \A s \in DOMAIN issued :
        /\ s \in DOMAIN answers
        /\ Len(answers[s]) = issued[s]
        /\ \A i \in 1..Len(answers[s]) : answers[s][i] # <<>>

\* no two requests of the sampling run were answered with the same text
EveryResponseDistinct ==
    \A s, t \in DOMAIN answers :
        \A i \in 1..Len(answers[s]) : \A j \in 1..Len(answers[t]) :
            answers[s][i] = answers[t][j] => (s = t /\ i = j)

AllPersisted ==
    /\ Range(all_results) \subseteq Range(artLog)
    /\ Range(Uids(all_results)) \subseteq Range(hashLog)

\* C16: a sampling run over an empty output directory whose requests were
\* all answered, with non-empty and pairwise distinct texts, returns
\* num_samples artifacts, has counted no duplicate, and has every returned
\* artifact in the artifact log and its identifier in the identifier log.
C16_AllUniqueAllAccepted ==
    (/\ pc = "returned"
     /\ kind \in SamplingKinds
     /\ run = 1
     /\ EveryResponseNonEmpty
     /\ EveryResponseDistinct)
    => /\ Len(all_results) = num_samples
       /\ total_duplicates = 0
       /\ AllPersisted

\* C17: when a sampling run in which every batch call succeeded and every
\* response was non-empty returns, the artifacts accepted and the duplicates
\* counted add up to the target: a duplicate is not replaced by a new request.
C17_DuplicateNotReplaced ==
    (/\ pc = "returned"
     /\ kind \in SamplingKinds
     /\ EveryBatchSucceeded
     /\ EveryResponseNonEmpty)
    => Len(all_results) + total_duplicates = num_samples

\* a run has returned one artifact short of its target, the missing one
\* being a response that repeated another
C17_Witness ==
    /\ pc = "returned"
    /\ kind \in SamplingKinds
    /\ EveryBatchSucceeded
    /\ EveryResponseNonEmpty
    /\ num_samples >= 2
    /\ total_duplicates = 1
    /\ Len(all_results) = num_samples - 1
    /\ RequestsIssued = num_samples

\* every loaded source item was handed to complete_batch_async at least once
EveryItemSubmitted ==
    \A i \in 1..Len(items) : items[i] \in DOMAIN issued /\ issued[items[i]] >= 1

\* C18 as stated: a sampling run returns only with num_samples accepted
\* artifacts, a transform run only with every loaded source item submitted
C18_ReturnsOnTarget ==
    pc = "returned" =>
        /\ kind \in SamplingKinds => Len(all_results) = num_samples
        /\ kind \notin SamplingKinds => EveryItemSubmitted

\* C18 amended: a run returns only after the last of its num_batches batches;
\* a sampling run has then accepted at most num_samples artifacts, and accepted
\* and duplicate responses together are no more than the responses received,
\* themselves no more than num_samples; a transform run has submitted every
\* loaded source item
C18_ReturnsAfterLastBatch ==
    pc = "returned" =>
        /\ batch_idx = num_batches
        /\ kind \in SamplingKinds =>
              /\ Len(all_results) + total_duplicates <= total_generated
              /\ total_generated <= num_samples
        /\ kind \notin SamplingKinds => EveryItemSubmitted

C18_Witness ==
    /\ pc = "returned"
    /\ kind = "problem"
    /\ num_batches >= 2
    /\ batch_idx = num_batches
    /\ Len(all_results) < num_samples

C18_WitnessTransform ==
    /\ pc = "returned"
    /\ kind = "code"
    /\ Len(items) >= 2
    /\ EveryItemSubmitted

\* the task r after the step, if the step changed it and did not end it
Successors(r) == {q \in reqs' : q.gid = r.gid /\ q.slot = r.slot /\ q # r}

\* C19: for every max_retries >= 1, _retry_call makes at most max_retries
\* attempts for one request; a successful attempt ends it with that result and
\* is never followed by another attempt; failed attempt number a (from 0), if
\* not the last, is followed by a sleep of 2^a seconds plus (a + 1) tenths and
\* then by attempt a + 1; the failure of attempt max_retries - 1 is raised with
\* no sleep
C19_RetryCall ==
    [][\A r \in reqs :
        /\ r.attempt + 1 <= max_retries
        /\ r.st \in {"done", "failed"} => Successors(r) = {}
        /\ r.st = "call" => \A q \in Successors(r) :
              /\ q.attempt = r.attempt
              /\ \/ q.st = "done"
                 \/ /\ q.st = "sleep"
                    /\ r.attempt < max_retries - 1
                    /\ q.delay = 10 * 2^(r.attempt) + (r.attempt + 1)
                 \/ /\ q.st = "failed"
                    /\ r.attempt = max_retries - 1
        /\ r.st = "sleep" => \A q \in Successors(r) :
              /\ q.st = "call"
              /\ q.attempt = r.attempt + 1
        /\ r.st = "wait" => \A q \in Successors(r) :
              /\ q.st = "call"
              /\ q.attempt = 0]_vars

C19_Witness ==
    /\ max_retries >= 2
    /\ \E r \in reqs : r.st = "failed" /\ r.attempt = max_retries - 1
    /\ \E r \in reqs : r.st = "done" /\ r.attempt >= 1

C19_WitnessSingleAttempt ==
    /\ max_retries = 1
    /\ \E r \in reqs : r.st = "failed" /\ r.attempt = 0

\* the record of a transform stage for source item src and response raw
RecordOf(k, src, raw) ==
    LET text == Strip(raw)
        full == combine_skeleton_and_body(ItemText(src), text)
    IN  CASE k = "code" -> [uid |-> compute_hash(full), text |-> full, src |-> src]
          [] k = "rating" -> [uid |-> ItemUid(src), text |-> text, src |-> src]
          [] OTHER -> [uid |-> compute_hash(text), text |-> text, src |-> src]

GatherDelivers ==
    /\ pc \in {"await", "awaitRetry"}
    /\ pc' \notin {pc, "dead"}
    /\ AwaitedReqs # {}
    /\ \A r \in AwaitedReqs : r.st = "done"

\* C20: when a batch call of a transform stage returns, every record the
\* stage adds for a source item is made of the response to the prompt of
\* that very item, and every record appended to the artifact log carries the
\* text and uid of the source item it names
C20_RecordsCarryTheirSource ==
    [][kind \notin SamplingKinds =>
        /\ GatherDelivers =>
              \A i \in 1..Len(pending_write') : i > Len(pending_write) =>
                  \E r \in AwaitedReqs :
                      /\ r.src = pending_write'[i].src
                      /\ pending_write'[i] = RecordOf(kind, r.src, r.res)
        /\ \A i \in 1..Len(artLog') : i > Len(artLog) =>
              \E raw \in Responses(kind) :
                  artLog'[i] = RecordOf(kind, artLog'[i].src, raw)]_vars

C20_Witness ==
    /\ kind = "skeleton"
    /\ run = 1
    /\ max_concurrent = 2
    /\ batch_idx = 0
    /\ Len(artLog) = 2
    /\ artLog[1].src = 1 /\ artLog[1].text = <<"y">>
    /\ artLog[2].src = 2 /\ artLog[2].text = <<"x">>

IsPrefix(a, b) == Len(a) <= Len(b) /\ SubSeq(b, 1, Len(a)) = a

\* C21: no step of the function-name flow removes or rewrites a record of the
\* artifact log: after every step the log is what it was, followed by the
\* records the step appended
C21_ArtifactLogAppendOnly ==
    [][kind = "names" => IsPrefix(artLog, artLog')]_vars

\* a step inside a run: not the start of a run, not the end of the process
StepOfRun == run' = run /\ pc' # "dead"

\* an awaited write of identifiers ends without having merged its buffer
HashWriteRaises ==
    /\ pc \in {"flushHash", "finalHash"}
    /\ pc' \notin {pc, "dead"}
    /\ all_results' = all_results

\* C22: inside a run the in-memory identifier set and the identifier log
\* only grow; the set grows only by a flush that succeeded: by the
\* identifiers of the flushed buffer, which the flush has written to the log;
\* a flush that fails has added no identifier to the log
C22_IdentifiersOnlyGrow ==
    [][StepOfRun =>
        /\ existing_hashes \subseteq existing_hashes'
        /\ IsPrefix(hashLog, hashLog')
        /\ HashWriteRaises => wi = 0
        /\ existing_hashes' # existing_hashes =>
              /\ (existing_hashes' \ existing_hashes) \subseteq Range(hashLog')
              /\ kind # "names" =>
                    existing_hashes' = existing_hashes \cup Range(pending_hashes)]_vars

\* a batch step ends and the loop goes to the next batch
BatchStepEnds == StepOfRun /\ batch_idx' = batch_idx + 1

\* ... by its "except Exception": the batch call or the write has raised
BatchStepRaises ==
    \/ pc = "await" /\ \E r \in AwaitedReqs : r.st = "failed"
    \/ InLoopWrite /\ all_results' = all_results

\* the records the step has moved from the buffer to the results
Flushed == SubSeq(all_results', Len(all_results) + 1, Len(all_results'))

\* C23: a batch step that ends without error leaves fewer than
\* batch_write_size artifacts in the buffer; inside the loop the buffer is
\* emptied only by a flush of at least batch_write_size artifacts, which
\* merges their identifiers into existing_hashes, and is otherwise only
\* appended to, and the results of a batch start a flush exactly when they
\* bring the buffer to batch_write_size
C23_FlushAtThreshold ==
    [][(StepOfRun /\ pc \notin {"idle", "returned", "raised", "finalArt", "finalHash",
                                 "finalSleep"}) =>
        /\ (BatchStepEnds /\ ~BatchStepRaises) => Len(pending_write') < batch_write_size
        /\ Flushed = <<>> => IsPrefix(pending_write, pending_write')
        /\ Flushed # <<>> =>
              /\ pending_write' = <<>>
              /\ pending_hashes' = <<>>
              /\ Len(Flushed) >= batch_write_size
              /\ Range(Uids(Flushed)) \subseteq existing_hashes'
        /\ GatherDelivers =>
              (pc' = "flushArt" <=> (kind # "names" /\ pc' # "awaitRetry"
                                     /\ Len(pending_write') >= batch_write_size))]_vars

C23_Witness ==
    /\ pc = "loop"
    /\ batch_write_size = 2
    /\ batch_idx = 2
    /\ Len(all_results) = 2
    /\ pending_write = <<>>
    /\ ~writeFailed
    /\ max_concurrent = 1

C23_WitnessBelow ==
    /\ pc = "loop"
    /\ batch_write_size = 2
    /\ batch_idx = 1
    /\ Len(pending_write) = 1
    /\ all_results = <<>>

\* a response of spaces only, or of nothing
IsBlank(raw) == \A i \in 1..Len(raw) : raw[i] = " "
BlankReqs == {r \in AwaitedReqs : IsBlank(r.res)}

\* the records accepted so far in the run, flushed or not
Accepted == all_results \o pending_write
AcceptedAfter == all_results' \o pending_write'

\* C24: when the original round of a batch is classified, a blank response
\* adds no record and no identifier to the buffer, no task to the retry queue
\* and nothing to the duplicate count: records, retry tasks and counted
\* duplicates are together no more than the responses that are not blank, and
\* none of the records and retry tasks is for the item of a blank response
C24_BlankDiscarded ==
    [][(GatherDelivers /\ pc = "await") =>
        /\ IsPrefix(Accepted, AcceptedAfter)
        /\ (Len(AcceptedAfter) - Len(Accepted)) + Len(retry_tasks')
              + (total_duplicates' - total_duplicates)
                <= Cardinality(AwaitedReqs) - Cardinality(BlankReqs)
        /\ Len(pending_hashes') <= Len(pending_hashes) + Cardinality(AwaitedReqs \ BlankReqs)
        /\ \A r \in BlankReqs :
              /\ \A i \in 1..Len(AcceptedAfter) :
                    i > Len(Accepted) => AcceptedAfter[i].src # r.src
              /\ \A i \in 1..Len(retry_tasks') : retry_tasks'[i].src # r.src]_vars

C24_Witness ==
    /\ kind = "code"
    /\ run = 1
    /\ batch_idx = 0
    /\ DOMAIN answers = {1, 2}
    /\ answers[1] = <<"empty">>
    /\ answers[2] = <<"ok">>
    /\ Len(pending_write) = 1
    /\ pending_write[1].src = 2
    /\ retry_tasks = <<>>
    /\ total_duplicates = 0

\* every record there is: in the artifact log, in the results, in the buffer
AllRecords == Range(artLog) \cup Range(all_results) \cup Range(pending_write)

\* C25 as stated: in every generator the uid of a record, which is the
\* identifier buffered for the identifier log, is the content key of the
\* record's own text, so records with the same uid have the same key
C25_UidIsContentKey ==
    /\ \A rec \in AllRecords : rec.uid = compute_hash(rec.text)
    /\ pending_hashes = Uids(pending_write)

\* C25 amended: that holds for the problems, skeletons, implementations and
\* function names; a rating record carries the uid of the implementation it
\* rates, whatever the text of the rating
C25_UidIsContentKeyButRatings ==
    /\ kind # "rating" => \A rec \in AllRecords : rec.uid = compute_hash(rec.text)
    /\ kind = "rating" => \A rec \in AllRecords : rec.uid = ItemUid(rec.src)
    /\ pending_hashes = Uids(pending_write)

C25_Witness ==
    /\ kind = "rating"
    /\ Len(artLog) = 2
    /\ artLog[1].text = artLog[2].text
    /\ artLog[1].uid # artLog[2].uid
    /\ artLog[1].uid # compute_hash(artLog[1].text)

C25_WitnessContent ==
    /\ kind = "code"
    /\ Len(artLog) = 2
    /\ artLog[1].text # artLog[2].text
    /\ artLog[1].uid # artLog[2].uid

\* C26: when the first run over an empty output directory returns, the
\* identifiers of the identifier log are the uids of the records of the
\* artifact log
C26_LogsAgreeOnReturn ==
    [][(pc # "returned" /\ pc' = "returned" /\ run' = 1) =>
        Range(hashLog') = {artLog'[i].uid : i \in 1..Len(artLog')}]_vars

InFlight(rs, b, round) ==
    {r \in rs : r.gid[1] = run /\ r.gid[2] = b /\ r.gid[3] = round /\ Unresolved(r)}

\* the tasks the step has created for a round
Created(round) ==
    {r \in reqs' : /\ r.gid[3] = round
                   /\ ~\E q \in reqs : q.gid = r.gid /\ q.slot = r.slot}

\* C27: retry requests are created only by the step that classifies an
\* original round all of whose requests have returned, one for every task of
\* the retry queue and all for the batch in hand; while generate() waits for
\* the retry round it issues nothing else, and the step that ends the round
\* goes on to the flush check of the same batch; no retry request is in
\* flight together with an original request of its own batch
C27_RetryAfterOriginalRound ==
    [][StepOfRun =>
        /\ Created("retry") # {} =>
              /\ pc = "await"
              /\ \A r \in AwaitedReqs : r.st = "done"
              /\ pc' = "awaitRetry"
              /\ \A r \in Created("retry") : r.gid = <<run, batch_idx, "retry">>
              /\ Cardinality(Created("retry")) = Len(retry_tasks')
              /\ \A i \in 1..Len(retry_tasks') :
                    \E r \in Created("retry") : r.slot = i /\ r.src = retry_tasks'[i].src
        /\ Created("orig") # {} => (pc = "loop" /\ pc' = "await")
        /\ pc = "awaitRetry" =>
              /\ Created("orig") = {} /\ Created("retry") = {}
              /\ pc' \in {"awaitRetry", "loop", "flushArt"}
              /\ pc' = "awaitRetry" => (pending_write' = pending_write /\ batch_idx' = batch_idx)
              /\ pc' # "awaitRetry" => IsPrefix(pending_write, pending_write')
        /\ \A b \in 0..batch_idx' :
              InFlight(reqs', b, "retry") = {} \/ InFlight(reqs', b, "orig") = {}]_vars

C27_Witness ==
    /\ pc = "awaitRetry"
    /\ Len(retry_tasks) = 2
    /\ Cardinality(InFlight(reqs, batch_idx, "retry")) = 2
    /\ \A r \in InFlight(reqs, batch_idx, "retry") : r.st = "call"

\* C28: the attempt counter of every retry task goes up by exactly one when
\* its retry round ends, whatever the transport attempts of its request, and
\* by nothing while the round runs; every request, original or retry, starts
\* with no transport attempt made and raises only after max_retries of them
C28_RetriesIndependent ==
    [][StepOfRun =>
        /\ pc = "awaitRetry" =>
              /\ Len(retry_tasks') = Len(retry_tasks)
              /\ \A i \in 1..Len(retry_tasks) :
                    /\ retry_tasks'[i].src = retry_tasks[i].src
                    /\ retry_tasks'[i].attempts =
                          retry_tasks[i].attempts + (IF pc' = "awaitRetry" THEN 0 ELSE 1)
        /\ \A r \in Created("retry") \cup Created("orig") : r.attempt = 0 /\ r.st = "wait"
        /\ \A r \in reqs' : /\ r.attempt <= max_retries - 1
                            /\ r.st = "failed" => r.attempt = max_retries - 1]_vars

\* C29: a write_batch task that has written its records goes on to write the
\* identifiers of those very records, and writes no identifier before its
\* last record
C29_TaskWritesItsOwnIdentifiers ==
    [][\A t \in bg : \A u \in bg' :
          (u.id = t.id /\ u.st = "hash") =>
              \/ t.st = "hash" /\ u.data = t.data
              \/ /\ t.st = "art"
                 /\ t.i + 1 = Len(t.data)
                 /\ u.i = 0
                 /\ u.data = Uids(t.data)]_vars

\* the records accepted in the run: the results and, until the final write
\* has copied it to the results, the buffer
AcceptedInRun ==
    IF pc \in {"returned", "finalSleep", "saved"} THEN all_results ELSE Accepted

\* C30: no two records accepted in a run are for the same source item (the
\* same original request of a sampling run), no item waiting for its retry
\* has a record, and the records accepted, like the results returned, are no
\* more than the items of the run: num_samples requests, or the loaded
\* source items
C30_OneRecordPerItem ==
    (pc \notin {"idle", "dead"}) =>
        /\ \A i, j \in 1..Len(AcceptedInRun) :
              AcceptedInRun[i].src = AcceptedInRun[j].src => i = j
        /\ \A i, j \in 1..Len(pending_write) :
              pending_write[i].src = pending_write[j].src => i = j
        /\ pc = "awaitRetry" =>
              \A t \in 1..Len(retry_tasks) : \A i \in 1..Len(AcceptedInRun) :
                  AcceptedInRun[i].src # retry_tasks[t].src
        /\ Len(AcceptedInRun) <= Total(kind, items)
        /\ Len(all_results) <= Total(kind, items)

C30_Witness ==
    /\ pc = "returned"
    /\ kind = "code"
    /\ DOMAIN answers = {1, 2}
    /\ answers[1] = <<"ok">>
    /\ answers[2] = <<"regen", "ok">>
    /\ Len(all_results) = 2
    /\ Len(items) = 2

\* C31: in ProblemGenerator.generate the original requests issued over the
\* run are at most num_samples, also when batch calls raised and were
\* skipped by the batch-level handler.
C31_RequestsWithinBudget ==
    (kind = "problem" /\ pc \notin {"idle", "dead"}) => RequestsIssued <= num_samples

\* the identifiers of the responses of the awaited batch call that the
\* validator finds well-formed
AcceptableUids ==
    {RecordOf(kind, r.src, r.res).uid :
        r \in {q \in AwaitedReqs : q.st = "done" /\ Verdict(kind, q.res) = "ok"}}

\* C32: after every step pending_hashes is, entry by entry, the uids of
\* pending_write.  An identifier is added to pending_hashes, or to the
\* identifier set, only when a batch call delivers and only for a response
\* that is not empty, malformed or of invalid syntax and, where identifiers
\* are content hashes, whose identifier was not yet known.
C32_HashesMatchBuffer ==
    [][/\ pending_hashes' = Uids(pending_write')
       /\ StepOfRun =>
             /\ \A i \in 1..Len(pending_hashes') : i > Len(pending_hashes) =>
                   /\ GatherDelivers
                   /\ pending_hashes'[i] \in AcceptableUids
                   /\ kind # "rating" =>
                         pending_hashes'[i] \notin existing_hashes \cup Range(pending_hashes)
             /\ (existing_hashes' \ existing_hashes) \subseteq
                   Range(pending_hashes) \cup (IF GatherDelivers THEN AcceptableUids ELSE {})]_vars

\* a record and its identifier are in the buffer of a code run in which the
\* retry of another item was rejected by the syntax check
C32_Witness ==
    /\ kind = "code"
    /\ pc = "loop"
    /\ Len(pending_write) = 1
    /\ pending_hashes = <<pending_write[1].uid>>
    /\ \E s \in DOMAIN answers : answers[s] = <<"regen", "invalid">>

\* C33: the list returned by generate() of ProblemGenerator, SkeletonGenerator
\* and CodeGenerator holds no two artifacts with the same identifier and no
\* artifact whose identifier was in the identifier log when the run started.
C33_ReturnedListUnique ==
    (pc = "returned" /\ kind \in {"problem", "skeleton", "code"}) =>
        /\ \A i, j \in 1..Len(all_results) :
              all_results[i].uid = all_results[j].uid => i = j
        /\ \A i \in 1..Len(all_results) : all_results[i].uid \notin prev.log

\* a run over a directory that holds an identifier returns one artifact
\* after it met the response with that identifier
C33_Witness ==
    /\ pc = "returned"
    /\ kind = "problem"
    /\ prev.log # {}
    /\ Len(all_results) = 1
    /\ \E s \in DOMAIN answers : compute_hash(answers[s][1]) \in prev.log

\* the requests that hold a permit after the step
InProgressAfter == {r \in reqs' : r.st \in {"call", "sleep"}}

\* C34: the free permits and the requests that hold one always add up to the
\* client's max_concurrent; the step in which a request that holds a permit
\* resolves, by a result or by the failure of its last attempt, frees one
\* permit; so when no request is unresolved every permit is free.
C34_PermitsReturned ==
    [][/\ sem' + Cardinality(InProgressAfter) = capacity
       /\ pc' # "dead" =>
             \A r \in InProgress :
                 (\A q \in InProgressAfter : q.gid # r.gid \/ q.slot # r.slot)
                     => sem' = sem + 1
       /\ (\A r \in reqs' : ~Unresolved(r)) => sem' = capacity]_vars

\* every permit is free again after a batch call of ProblemGenerator with
\* two requests raised and both requests have resolved
C34_Witness ==
    /\ kind = "problem"
    /\ capacity = 2
    /\ pc = "loop"
    /\ batch_idx = 1
    /\ total_generated = 0
    /\ DOMAIN issued = {1, 2}
    /\ reqs = {}
    /\ sem = capacity

\* C35: in every run the batch size max_concurrent that generate() read from
\* the client's semaphore is the client's configured capacity, also in a run
\* that follows, on the same client, a run that returned after one of its
\* batch calls raised.
C35_BatchSizeIsCapacity ==
    (pc \notin {"idle", "dead"}) => max_concurrent = capacity

\* generate() that has entered its loop returns or raises
RunEnds == (pc = "loop") ~> (pc \in {"returned", "raised"})

\* C36: a run issues at most ceil(N / K) original batches, K the client's
\* max_concurrent and N the requests the run is to make, and at most one
\* retry round per batch, so that no item is requested more than twice, and
\* no request makes more than max_retries attempts.  (That generate()
\* returns or raises when every call and every write ends is RunEnds.)
C36_RunBounds ==
    (pc \notin {"idle", "dead"}) =>
        /\ batch_idx <= Ceil(Total(kind, items), capacity)
        /\ \A r \in reqs :
              /\ r.gid[1] = run => r.gid[2] < Ceil(Total(kind, items), capacity)
              /\ r.attempt < max_retries
        /\ \A s \in DOMAIN issued : issued[s] <= 2

\* the implementations of the input file whose uid is not in the set log
UnratedIn(log) == {i \in 1..Len(InputFile) : ItemUid(InputFile[i]) \notin log}

\* its is the first n of the implementations in S, in file order, or all of S
FirstOf(its, n, S) ==
    /\ Len(its) = Min(n, Cardinality(S))
    /\ \A a, b \in 1..Len(its) : a < b => its[a] < its[b]
    /\ \A a \in 1..Len(its) :
          /\ its[a] \in S
          /\ \A j \in S : j < its[a] => j \in Range(its)

\* C37: the source items of a run of RatingGenerator are the first
\* num_samples implementations of the input file, in file order, among
\* those whose uid was not in the identifier log when the run started (all
\* of them when they are fewer); no step of the run submits, accepts,
\* returns or writes an implementation that was in the log.
C37_RatedNotRatedAgain ==
    [][kind = "rating" =>
        /\ run' # run => FirstOf(items', num_samples, UnratedIn(Range(hashLog)))
        /\ StepOfRun =>
              /\ items' = items
              /\ \A s \in DOMAIN issued' : s \in Range(items)
              /\ \A i \in 1..Len(pending_write') :
                    i > Len(pending_write) => pending_write'[i].src \in Range(items)
              /\ \A i \in 1..Len(all_results') :
                    i > Len(all_results) => all_results'[i].src \in Range(items)
              /\ \A i \in 1..Len(artLog') : i > Len(artLog) => artLog'[i].src \in Range(items)
              /\ \A i \in 1..Len(hashLog') :
                    i > Len(hashLog) => \E a \in 1..Len(items) : hashLog'[i] = ItemUid(items[a])]_vars

\* a run with num_samples = 2 over a log that holds the first implementation
\* has rated the second and the third
C37_Witness ==
    /\ kind = "rating"
    /\ pc = "returned"
    /\ prev.log = {ItemUid(1)}
    /\ num_samples = 2
    /\ items = <<2, 3>>
    /\ Len(all_results) = 2

\* C38: for every max_retries, 0 included, a request resolves only out of an
\* invocation of the remote call: with that invocation's result, or with the
\* failure of invocation number max_retries; it never resolves with a value
\* without the remote call having been invoked.
C38_ResolvesOnlyAfterCall ==
    [][\A r \in reqs : \A q \in Successors(r) :
          ~Unresolved(q) =>
              /\ r.st = "call"
              /\ \/ q.st = "done"
                 \/ q.st = "failed" /\ r.attempt = max_retries - 1]_vars

====
